---- MODULE Spec2Model ----
(***************************************************************************)
(* A model of wfiles: the two-tier indexing pass (stash), its             *)
(* transactional catalogue, the file hasher and the duplicate scanner.     *)
(*                                                                         *)
(* Bytes are small integers, a file content is a sequence of bytes, a path *)
(* is the sequence of its components.  A digest is the pair <<algorithm,   *)
(* value>>: the strong digests (MD5, SHA512) are treated as collision-free *)
(* and are represented by the byte sequence that was fed to the hasher;    *)
(* the fast digest (xxh3) is a lossy function of the fed bytes, so that    *)
(* different contents can share a fast fingerprint.                        *)
(***************************************************************************)
EXTENDS Integers, Sequences, FiniteSets, TLC

\* ---------------------------------------------------------------- bounds
MaxRoots == 2          \* longest list of root directories given to stash
MaxBuf == 1            \* largest read-buffer size, in bytes of the model
MaxFaults == 1         \* how many files may become unreadable
MaxRows == 4           \* rows of a catalogue drawn for the duplicate scan
MaxGroups == 3         \* duplicate groups handed to the prune planner
MaxIdx == 3            \* largest max_idx handed to KeepStrategy::from_str
MaxFiles == 2          \* files of a tree hashed by one FileHasher
MaxReads == 2          \* reads of a file that may come back short
MaxSize == 3           \* largest size declared for a file that is read

\* ------------------------------------------------------- program constants
DB_VERSION == 256      \* 0x0100

NULL == <<"NULL", <<>>>>
Medium == "filesystem"

Min(a, b) == IF a < b THEN a ELSE b

RECURSIVE SumBytes(_)
SumBytes(s) == IF s = <<>> THEN 0 ELSE Head(s) + SumBytes(Tail(s))

\* ------------------------------------------------------------ file system
\* The tree that is indexed: /a/x, /a/s/y and /b/z.
DirA == <<"a">>
DirS == <<"a", "s">>
DirB == <<"b">>
Roots == {DirA, DirS, DirB}
FileX == <<"a", "x">>
FileY == <<"a", "s", "y">>
FileZ == <<"b", "z">>
FsFiles == {FileX, FileY, FileZ}
\* the order in which the directory walker meets the files
DirOrder == <<FileX, FileY, FileZ>>

\* <<1>> and <<1,2>> share a fast fingerprint and differ in size;
\* <<2>> has another fast fingerprint.
Contents == {<<1>>, <<1, 2>>, <<2>>}

\* the trees that are indexed: /a/x holds one byte, the files met after it
\* hold any of the contents
Trees == {c \in [FsFiles -> Contents] : c[FileX] = <<1>>}

\* the tree of the runs in which files become unreadable: /a/x and /a/s/y
\* are identical, /b/z shares their fast fingerprint
FaultTree == (FileX :> <<1>>) @@ (FileY :> <<1>>) @@ (FileZ :> <<1, 2>>)

IsPrefix(r, p) == Len(r) <= Len(p) /\ SubSeq(p, 1, Len(r)) = r

\* Path::parent, Path::file_name and format!("{}{}{}", path, SEP, fname)
Parent(p) == SubSeq(p, 1, Len(p) - 1)
FileName(p) == p[Len(p)]
JoinPath(dir, fname) == Append(dir, fname)

\* a walk that does not descend into subdirectories
WalkDir_shallow(dir) == SelectSeq(DirOrder, LAMBDA p : Parent(p) = dir)

\* WalkDir::new(dir): the regular files below one root, in walk order
WalkDir(dir) == SelectSeq(DirOrder, LAMBDA p : IsPrefix(dir, p))

\* FileVisitor::traverse: the roots are walked one after the other
RECURSIVE traverse(_)
traverse(topdirs) ==
    IF topdirs = <<>> THEN <<>>
    ELSE WalkDir(Head(topdirs)) \o traverse(Tail(topdirs))

\* ----------------------------------------------------------------- hasher
\* ByteHasher::update/finish/digest of QuickHasher and SlowHasher
Digest(algo, fed) ==
    IF algo = "xxh3" THEN <<"xxh3", <<SumBytes(fed) % 2>>>>
    ELSE <<algo, fed>>

\* the read loop of FileHasher::hash_filehandle (buffered path)
RECURSIVE ReadLoop(_, _, _, _, _)
ReadLoop(bytes, pos, bufsz, file_size, fed) ==
    LET n == Min(bufsz, Len(bytes) - pos) IN
    IF n # 0
    THEN LET fed2 == fed \o SubSeq(bytes, pos + 1, pos + n) IN
         IF n = file_size
         THEN [fed |-> fed2, pos |-> pos + n]
         ELSE ReadLoop(bytes, pos + n, bufsz, file_size, fed2)
    ELSE [fed |-> fed, pos |-> pos]

\* FileHasher::hash_filehandle.  f is an open handle [bytes, pos, badread];
\* fh is the FileHasher [algo, bufsz, force_read]; mmap_ok tells whether
\* the mapping of the file succeeds.  A failed read panics (ok = FALSE).
hash_filehandle(fh, f, file_size, mmap_ok) ==
    IF ~fh.force_read /\ mmap_ok
    THEN [ok |-> TRUE, digest |-> Digest(fh.algo, f.bytes), pos |-> f.pos]
    ELSE IF f.badread
         THEN [ok |-> FALSE, digest |-> NULL, pos |-> f.pos]
         ELSE LET r == ReadLoop(f.bytes, f.pos, fh.bufsz, file_size, <<>>) IN
              [ok |-> TRUE, digest |-> Digest(fh.algo, r.fed), pos |-> r.pos]

\* ------------------------------------------------- the hasher as an object
\* The same hasher with the state it carries from one call to the next: the
\* bytes mixed into the digestor since it was last reset, the digest field,
\* and the contents of the read buffer of the FileHasher.
\* the digest field as the constructors leave it: all bytes zero
ZeroDigest(algo) == <<algo, <<-1>>>>

\* QuickHasher::new, SlowHasher::MD5, SlowHasher::SHA512
ByteHasher_new(algo) ==
    [algo |-> algo, digestor |-> <<>>, digest |-> ZeroDigest(algo)]

\* ByteHasher::update
ByteHasher_update(h, data) == [h EXCEPT !.digestor = @ \o data]

\* a finish that leaves the digestor as it is
ByteHasher_finish_no_reset(h) ==
    [h EXCEPT !.digest = Digest(h.algo, h.digestor)]

\* ByteHasher::finish: QuickHasher resets its digestor, the Hasher of
\* SlowHasher is reset by its own finish
ByteHasher_finish(h) ==
    [h EXCEPT !.digest = Digest(h.algo, h.digestor), !.digestor = <<>>]

\* ByteHasher::digest
ByteHasher_digest(h) == h.digest

\* FileHasher::new
FileHasher_new(hasher, bufsz, force_read) ==
    [hasher |-> hasher, buf |-> [i \in 1..bufsz |-> 0],
     force_read |-> force_read]

\* the loop of hash_filehandle.  caps bounds what the next reads return (a
\* read may return fewer bytes than the buffer holds), a read after the
\* last cap fills the buffer as far as the file goes; t.reads lists what
\* the reads returned, t.stop tells which break ended the loop
RECURSIVE read_loop(_, _, _, _, _)
read_loop(fh, f, file_size, caps, t) ==
    LET cap == IF caps = <<>> THEN Len(fh.buf) ELSE Head(caps)
        n == Min(cap, Min(Len(fh.buf), Len(f.bytes) - f.pos))
        buf2 == [i \in 1..Len(fh.buf) |->
                    IF i <= n THEN f.bytes[f.pos + i] ELSE fh.buf[i]]
        f2 == [f EXCEPT !.pos = @ + n]
        t2 == [t EXCEPT !.reads = Append(@, n)] IN
    IF n # 0
    THEN LET fh2 == [fh EXCEPT
                       !.buf = buf2,
                       !.hasher = ByteHasher_update(@, SubSeq(buf2, 1, n))] IN
         IF n = file_size
         THEN [fh |-> fh2, f |-> f2, t |-> [t2 EXCEPT !.stop = "size"]]
         ELSE read_loop(fh2, f2, file_size,
                        IF caps = <<>> THEN <<>> ELSE Tail(caps), t2)
    ELSE [fh |-> fh, f |-> f, t |-> [t2 EXCEPT !.stop = "eof"]]

\* FileHasher::hash_filehandle on the FileHasher fh as earlier calls left
\* it: the FileHasher after the call, the digest, what was fed to the
\* hasher by this call and before it since the last reset, and the handle
FileHasher_hash_filehandle(fh, f, file_size, mmap_ok, caps) ==
    LET r == IF ~fh.force_read /\ mmap_ok
             THEN [fh |-> [fh EXCEPT
                             !.hasher = ByteHasher_update(@, f.bytes)],
                   f |-> f, t |-> [reads |-> <<>>, stop |-> "mmap"]]
             ELSE read_loop(fh, f, file_size, caps,
                            [reads |-> <<>>, stop |-> "none"])
        h2 == ByteHasher_finish(r.fh.hasher) IN
    [fh |-> [r.fh EXCEPT !.hasher = h2], digest |-> ByteHasher_digest(h2),
     fed |-> r.fh.hasher.digestor, pos |-> r.f.pos, t |-> r.t]

\* -------------------------------------------------------------- variables
VARIABLES
    fs,        \* the tree: [content, state], state[p] in ok / noopen / badread
    disk,      \* the committed catalogue file: [exists, config, media, files]
    pc,        \* "idle", "walking" (inside the transaction) or "done"
    op,        \* the StashOperation built by from_args
    txn,       \* media and files rows as seen inside the open transaction
    queue,     \* entries the active traversal has still to visit
    oplog,     \* the row writes of the current pass, in order
    failed,    \* the walked files whose open failed in the current pass
    walked,    \* the files handed to hash_and_store in the current pass
    diag,      \* the diagnostics printed to stderr by the current pass
    kept,      \* the media and files rows of the catalogue file are still
               \* the ones it had before the current pass
    outcome,   \* how the last operation ended
    dups,      \* the result of the last duplicate scan
    args,      \* the arguments of a function of the prune planner that is
               \* applied on its own
    ret        \* what that function returned

vars == <<fs, disk, pc, op, txn, queue, oplog, failed, walked, diag, kept,
          outcome, dups, args, ret>>

NoDisk == [exists |-> FALSE, config |-> <<>>, media |-> <<>>, files |-> <<>>]
NoTxn == [media |-> <<>>, files |-> <<>>]
NoArgs == [fn |-> "none"]
NoRet == [done |-> FALSE]
NoOp == [topdirs |-> <<>>, bufsize |-> 1, force_db_overwrite |-> FALSE,
         force_read |-> FALSE, force_sha512 |-> FALSE, only_slowhash |-> FALSE]

\* -------------------------------------------------------------- catalogue
\* a gate that accepts the implementation's own version only
is_compatible_exact(file_version) == file_version = DB_VERSION

\* DataBase::is_compatible
is_compatible(file_version) ==
    (file_version \div 256) = (DB_VERSION \div 256)

\* DataBase::is_initialized: the config table exists and has a row
is_initialized(d) == d.exists /\ d.config # <<>>

\* DataBase::init_db: the schema and the three config values
init_db(version, force_sha512, only_slowhash) ==
    [exists |-> TRUE,
     config |-> <<[version |-> version, force_sha512 |-> force_sha512,
                   only_slowhash |-> only_slowhash]>>,
     media |-> <<>>, files |-> <<>>]

\* an open that does not compare the only_slowhash flag with the stored one
DataBase_new_unlocked(d, force_db_overwrite, force_sha512, only_slowhash) ==
    LET d1 == IF d.exists /\ force_db_overwrite THEN NoDisk ELSE d IN
    IF ~is_initialized(d1)
    THEN [ok |-> TRUE, disk |-> init_db(DB_VERSION, force_sha512, only_slowhash)]
    ELSE IF ~is_compatible(d1.config[1].version)
         THEN [ok |-> FALSE, disk |-> d1]
         ELSE IF force_sha512 # d1.config[1].force_sha512
              THEN [ok |-> FALSE, disk |-> d1]
              ELSE [ok |-> TRUE, disk |-> d1]

\* an open that installs the schema and the config in every file
DataBase_new_reinit(d, force_db_overwrite, force_sha512, only_slowhash) ==
    [ok |-> TRUE, disk |-> init_db(DB_VERSION, force_sha512, only_slowhash)]

\* an open that evaluates the gates on the old file before it deletes it
DataBase_new_gates_first(d, force_db_overwrite, force_sha512, only_slowhash) ==
    IF ~is_initialized(d)
    THEN [ok |-> TRUE, disk |-> init_db(DB_VERSION, force_sha512, only_slowhash)]
    ELSE IF ~is_compatible(d.config[1].version)
         THEN [ok |-> FALSE, disk |-> d]
         ELSE IF force_sha512 # d.config[1].force_sha512
              THEN [ok |-> FALSE, disk |-> d]
              ELSE IF only_slowhash # d.config[1].only_slowhash
                   THEN [ok |-> FALSE, disk |-> d]
                   ELSE IF force_db_overwrite
                   THEN [ok |-> TRUE,
                         disk |-> init_db(DB_VERSION, force_sha512,
                                          only_slowhash)]
                   ELSE [ok |-> TRUE, disk |-> d]

\* DataBase::new: the result is the catalogue file after the open and
\* whether the open was accepted (ok) or ended in a panic
DataBase_new(d, force_db_overwrite, force_sha512, only_slowhash) ==
    LET d1 == IF d.exists /\ force_db_overwrite THEN NoDisk ELSE d IN
    IF ~is_initialized(d1)
    THEN [ok |-> TRUE, disk |-> init_db(DB_VERSION, force_sha512, only_slowhash)]
    ELSE IF ~is_compatible(d1.config[1].version)
         THEN [ok |-> FALSE, disk |-> d1]
         ELSE IF force_sha512 # d1.config[1].force_sha512
              THEN [ok |-> FALSE, disk |-> d1]
              ELSE IF only_slowhash # d1.config[1].only_slowhash
                   THEN [ok |-> FALSE, disk |-> d1]
                   ELSE [ok |-> TRUE, disk |-> d1]

\* DataBase::for_reading
for_reading(d) ==
    IF ~d.exists \/ d.config = <<>> THEN [ok |-> FALSE]
    ELSE IF ~is_compatible(d.config[1].version) THEN [ok |-> FALSE]
    ELSE [ok |-> TRUE, force_sha512 |-> d.config[1].force_sha512,
          only_slowhash |-> d.config[1].only_slowhash]

\* MediaInsertStatement::try_add_medium: INSERT OR IGNORE
try_add_medium(media, medium) ==
    IF \E i \in 1..Len(media) : media[i] = medium THEN media
    ELSE Append(media, medium)

\* (select medium_id from media where medium = ?), 0 standing for NULL
MediumId(media, medium) ==
    IF \E i \in 1..Len(media) : media[i] = medium
    THEN CHOOSE i \in 1..Len(media) : media[i] = medium
    ELSE 0

\* File::open on a path of the tree
CanOpen(p) == p \in FsFiles /\ fs.state[p] # "noopen"
OpenFile(p) == [bytes |-> fs.content[p], pos |-> 0,
                badread |-> fs.state[p] = "badread"]

\* the three FileHasher objects built by do_operation
quick_hasher == [algo |-> "xxh3", bufsz |-> op.bufsize,
                 force_read |-> op.force_read]
slow_hasher == [algo |-> IF op.force_sha512 THEN "sha512" ELSE "md5",
                bufsz |-> op.bufsize, force_read |-> op.force_read]
slow_hasher_lazy == slow_hasher

\* FileHasher::hash_dbentry
hash_dbentry(fh, path, fname, file_size, mmap_ok) ==
    LET full_path == JoinPath(path, fname) IN
    IF ~CanOpen(full_path)
    THEN [ok |-> FALSE, digest |-> NULL,
          err |-> <<"error while accessing file for triggered slowhashing",
                    full_path>>]
    ELSE LET h == hash_filehandle(fh, OpenFile(full_path), file_size,
                                  mmap_ok) IN
         [ok |-> h.ok, digest |-> h.digest,
          err |-> <<"error reading file!", full_path>>]

\* a probe that compares the wrong column
Matches_wrong_column(files, fasthash) ==
    {i \in 1..Len(files) : files[i].slowhash = fasthash}

\* the rows the probe "where fasthash = ?" matches
Matches(files, fasthash) ==
    {i \in 1..Len(files) : files[i].fasthash = fasthash}

\* a collision check that reports the partner without promoting it
collision_no_update(files, pick, mmap_ok) ==
    IF pick = 0
    THEN [ok |-> TRUE, hit |-> FALSE, files |-> files, err |-> <<>>]
    ELSE [ok |-> TRUE, hit |-> TRUE, files |-> files, err |-> <<>>]

\* a collision check that reports a collision when the probe found no row
collision_always_hit(files, pick, mmap_ok) ==
    IF pick = 0
    THEN [ok |-> TRUE, hit |-> TRUE, files |-> files, err |-> <<>>]
    ELSE LET P == files[pick]
             d == hash_dbentry(slow_hasher_lazy, P.path, P.fname, P.size,
                               mmap_ok) IN
         IF ~d.ok
         THEN [ok |-> FALSE, hit |-> FALSE, files |-> files, err |-> d.err]
         ELSE [ok |-> TRUE, hit |-> TRUE, err |-> <<>>,
               files |-> [files EXCEPT ![pick].slowhash = d.digest]]

\* a collision check that takes a partner it cannot re-open for no partner
collision_skip_failed(files, pick, mmap_ok) ==
    IF pick = 0
    THEN [ok |-> TRUE, hit |-> FALSE, files |-> files, err |-> <<>>]
    ELSE LET P == files[pick]
             d == hash_dbentry(slow_hasher_lazy, P.path, P.fname, P.size,
                               mmap_ok) IN
         IF ~d.ok
         THEN [ok |-> TRUE, hit |-> FALSE, files |-> files, err |-> <<>>]
         ELSE [ok |-> TRUE, hit |-> TRUE, err |-> <<>>,
               files |-> [files EXCEPT ![pick].slowhash = d.digest]]

\* CheckCollisionStatement::collision with trigger_slowhashing; pick is the
\* row the query returns first (0 when it returns none)
collision(files, pick, mmap_ok) ==
    IF pick = 0
    THEN [ok |-> TRUE, hit |-> FALSE, files |-> files, err |-> <<>>]
    ELSE LET P == files[pick]
             d == hash_dbentry(slow_hasher_lazy, P.path, P.fname, P.size,
                               mmap_ok) IN
         IF ~d.ok
         THEN [ok |-> FALSE, hit |-> FALSE, files |-> files, err |-> d.err]
         ELSE [ok |-> TRUE, hit |-> TRUE, err |-> <<>>,
               files |-> [files EXCEPT ![pick].slowhash = d.digest]]

\* an insert that replaces the row that has the key (INSERT OR REPLACE)
add_file_or_replace(media, files, fm) ==
    LET row == [medium_id |-> MediumId(media, fm.medium),
                path |-> Parent(fm.path), fname |-> FileName(fm.path),
                fasthash |-> fm.fasthash, slowhash |-> fm.slowhash,
                size |-> fm.size]
        same == {i \in 1..Len(files) : /\ files[i].medium_id = row.medium_id
                                       /\ files[i].path = row.path
                                       /\ files[i].fname = row.fname} IN
    IF row.medium_id = 0 THEN [ok |-> FALSE, files |-> files]
    ELSE IF same # {}
    THEN [ok |-> TRUE,
          files |-> [i \in 1..Len(files) |->
                        IF i \in same THEN row ELSE files[i]]]
    ELSE [ok |-> TRUE, files |-> Append(files, row)]

\* FileInsertStatement::add_file under the primary key of the files table
add_file(media, files, fm) ==
    LET row == [medium_id |-> MediumId(media, fm.medium),
                path |-> Parent(fm.path), fname |-> FileName(fm.path),
                fasthash |-> fm.fasthash, slowhash |-> fm.slowhash,
                size |-> fm.size] IN
    IF row.medium_id = 0
       \/ \E i \in 1..Len(files) : /\ files[i].medium_id = row.medium_id
                                   /\ files[i].path = row.path
                                   /\ files[i].fname = row.fname
    THEN [ok |-> FALSE, files |-> files]
    ELSE [ok |-> TRUE, files |-> Append(files, row)]

\* the Ok branch of the hash_and_store closure of do_operation, for the
\* walked file p; m1, m2, m3 tell whether the mapping succeeds in the three
\* calls of hash_filehandle, pick is the row returned by the probe
hash_and_store(p, m1, m2, m3, pick) ==
    LET f == OpenFile(p)
        _size == Len(f.bytes)
        q == IF op.only_slowhash
             THEN [ok |-> TRUE, digest |-> NULL, pos |-> f.pos]
             ELSE hash_filehandle(quick_hasher, f, _size, m1)
        c == IF op.only_slowhash
             THEN [ok |-> TRUE, hit |-> FALSE, files |-> txn.files,
                   err |-> <<>>]
             ELSE collision(txn.files, pick, m2)
        s == IF op.only_slowhash \/ c.hit
             THEN hash_filehandle(slow_hasher, [f EXCEPT !.pos = q.pos],
                                  _size, m3)
             ELSE [ok |-> TRUE, digest |-> NULL, pos |-> q.pos]
        a == add_file(txn.media, c.files,
                      [path |-> p, fasthash |-> q.digest,
                       slowhash |-> s.digest, medium |-> Medium,
                       size |-> _size])
        upd == IF c.hit THEN <<[kind |-> "update", rowid |-> pick]>> ELSE <<>>
    IN
    IF ~q.ok \/ ~c.ok \/ ~s.ok \/ ~a.ok
    THEN [ok |-> FALSE, files |-> txn.files, log |-> <<>>,
          err |-> IF ~q.ok THEN <<"error reading file!", p>>
                  ELSE IF ~c.ok THEN c.err
                  ELSE IF ~s.ok THEN <<"error reading file!", p>>
                  ELSE <<"INSERT for file", p>>]
    ELSE [ok |-> TRUE, files |-> a.files, err |-> <<>>,
          log |-> Append(upd, [kind |-> "insert", rowid |-> Len(a.files)])]

\* ------------------------------------------------------ duplicate scanner
\* the order of the hex digests of one algorithm (ORDER BY slowhash)
RECURSIVE BytesLess(_, _)
BytesLess(a, b) ==
    IF b = <<>> THEN FALSE
    ELSE IF a = <<>> THEN TRUE
    ELSE IF Head(a) # Head(b) THEN Head(a) < Head(b)
    ELSE BytesLess(Tail(a), Tail(b))

HashLess(h1, h2) == BytesLess(h1[2], h2[2])

\* select slowhash, COUNT(*) AS P FROM files WHERE slowhash is NOT NULL
\* GROUP BY slowhash HAVING COUNT(*) > 1
CountOf(files, h) == Cardinality({i \in 1..Len(files) : files[i].slowhash = h})
DupHashes(files) ==
    {h \in {files[i].slowhash : i \in 1..Len(files)} :
        h # NULL /\ CountOf(files, h) > 1}

\* ... ORDER BY slowhash: the materialised subquery T2
RECURSIVE T2(_)
T2(hs) ==
    IF hs = {} THEN <<>>
    ELSE LET h == CHOOSE x \in hs : \A y \in hs \ {x} : HashLess(x, y) IN
         <<h>> \o T2(hs \ {h})

\* one row of the join: path, fname, slowhash, T2.P, size
JoinRow(files, r) ==
    [path |-> r.path, fname |-> r.fname, slowhash |-> r.slowhash,
     P |-> CountOf(files, r.slowhash), size |-> r.size]

RECURSIVE MapJoin(_, _)
MapJoin(files, rs) ==
    IF rs = <<>> THEN <<>>
    ELSE <<JoinRow(files, Head(rs))>> \o MapJoin(files, Tail(rs))

\* the rows of files that carry the fingerprint h, in rowid order
RowsOf(files, h) == SelectSeq(files, LAMBDA r : r.slowhash = h)

RECURSIVE JoinT2(_, _)
JoinT2(files, t2) ==
    IF t2 = <<>> THEN <<>>
    ELSE MapJoin(files, RowsOf(files, Head(t2))) \o JoinT2(files, Tail(t2))

\* a join that scans files in rowid order and looks each row up in T2
identify_dups_rowid(files) ==
    MapJoin(files, SelectSeq(files, LAMBDA r : r.slowhash \in DupHashes(files)))

\* the row stream of the query of IdentifyDupsStatement::new: T2 is
\* scanned in its order and files is searched through idx_slowhash
identify_dups(files) == JoinT2(files, T2(DupHashes(files)))

\* the loop of IdentifyDupsStatement::get_dups over the row stream
RECURSIVE Assemble(_, _, _, _)
Assemble(rows, v, start_of_new_duplicate_set, remaining_dups) ==
    IF rows = <<>> THEN v
    ELSE LET row == Head(rows)
             one_path == JoinPath(row.path, row.fname) IN
         IF start_of_new_duplicate_set
         THEN Assemble(Tail(rows),
                       Append(v, [one_path |-> one_path, other_paths |-> <<>>,
                                  hash |-> row.slowhash, num_dups |-> row.P,
                                  size |-> row.size]),
                       FALSE, row.P - 1)
         ELSE LET n == Len(v)
                  last == [v[n] EXCEPT
                             !.other_paths = Append(@, one_path)] IN
              Assemble(Tail(rows), [v EXCEPT ![n] = last],
                       remaining_dups - 1 = 0, remaining_dups - 1)

get_dups(files) == Assemble(identify_dups(files), <<>>, TRUE, 0)

\* ---------------------------------------------------------- prune planner
\* A String is the sequence of its characters; Alphabet lists the characters
\* of the model in the order of their codes.
Alphabet == <<"\n", " ", ",", "/", "0", "1", "2", "3", "4", "5", "6", "7", "8",
              "9", "a", "b", "c", "d", "e", "f", "x">>
Ord(c) == CHOOSE i \in 1..Len(Alphabet) : Alphabet[i] = c
MAIN_SEPARATOR == "/"
IsDigit(c) == Ord(c) \in Ord("0")..Ord("9")

\* the order of OsStr, byte by byte
RECURSIVE StrLess(_, _)
StrLess(a, b) ==
    IF b = <<>> THEN FALSE
    ELSE IF a = <<>> THEN TRUE
    ELSE IF Head(a) # Head(b) THEN Ord(Head(a)) < Ord(Head(b))
    ELSE StrLess(Tail(a), Tail(b))

\* PathBuf::from of an absolute path: the components after the root
RECURSIVE Components(_, _)
Components(str, cur) ==
    LET done == IF cur = <<>> THEN <<>> ELSE <<cur>> IN
    IF str = <<>> THEN done
    ELSE IF Head(str) = MAIN_SEPARATOR
         THEN done \o Components(Tail(str), <<>>)
         ELSE Components(Tail(str), Append(cur, Head(str)))
PathBuf_from(str) == Components(str, <<>>)

\* PathBuf::to_str
RECURSIVE to_str(_)
to_str(pb) ==
    IF pb = <<>> THEN <<MAIN_SEPARATOR>>
    ELSE IF Len(pb) = 1 THEN <<MAIN_SEPARATOR>> \o pb[1]
    ELSE <<MAIN_SEPARATOR>> \o pb[1] \o to_str(Tail(pb))

\* PathBuf::from(path).parent().unwrap_or(MAIN_SEPARATOR)
parent_or_root(str) ==
    LET pb == PathBuf_from(str) IN
    IF pb = <<>> THEN <<>> ELSE SubSeq(pb, 1, Len(pb) - 1)

\* the order of PathBuf: component by component
RECURSIVE PathLess(_, _)
PathLess(p, q) ==
    IF q = <<>> THEN FALSE
    ELSE IF p = <<>> THEN TRUE
    ELSE IF Head(p) # Head(q) THEN StrLess(Head(p), Head(q))
    ELSE PathLess(Tail(p), Tail(q))

\* Vec::sort
RECURSIVE sort_insert(_, _)
sort_insert(v, p) ==
    IF v = <<>> THEN <<p>>
    ELSE IF PathLess(p, Head(v)) THEN <<p>> \o v
    ELSE <<Head(v)>> \o sort_insert(Tail(v), p)
RECURSIVE sort(_)
sort(v) == IF v = <<>> THEN <<>> ELSE sort_insert(sort(Tail(v)), Head(v))

\* Vec::dedup: consecutive repeated elements are removed
RECURSIVE dedup(_)
dedup(v) ==
    IF Len(v) <= 1 THEN v
    ELSE IF v[1] = v[2] THEN dedup(Tail(v))
    ELSE <<v[1]>> \o dedup(Tail(v))

\* [&str]::join
RECURSIVE join(_, _)
join(strs, sep) ==
    IF strs = <<>> THEN <<>>
    ELSE IF Len(strs) = 1 THEN strs[1]
    ELSE strs[1] \o sep \o join(Tail(strs), sep)

\* the directories of a group sorted, with the repeated ones left in
dir_vec_no_dedup(d) ==
    sort(<<parent_or_root(d.one_path)>> \o
         [i \in 1..Len(d.other_paths) |-> parent_or_root(d.other_paths[i])])

\* the directories of a group in the order of its paths
dir_vec_no_sort(d) ==
    dedup(<<parent_or_root(d.one_path)>> \o
          [i \in 1..Len(d.other_paths) |-> parent_or_root(d.other_paths[i])])

\* the sorted, deduplicated directories of the paths of a group, and the
\* key made of them, as path_sig, pick_dups_for_rules and
\* collect_dup_path_rules each compute them
dir_vec(d) ==
    dedup(sort(<<parent_or_root(d.one_path)>> \o
               [i \in 1..Len(d.other_paths) |->
                   parent_or_root(d.other_paths[i])]))
dir_key(vec) == join([i \in 1..Len(vec) |-> to_str(vec[i])], <<",">>)

\* DupFile::path_sig
path_sig(d) == dir_key(dir_vec(d))

\* enum KeepStrategy, Option<KeepStrategy> and Result<KeepStrategy, &str>
KEEP_AS_IS == <<"KEEP_AS_IS">>
KEEP_THIS_OF_THESE(i) == <<"KEEP_THIS_OF_THESE", i>>
KEEP_THIS_OF_ANY(i) == <<"KEEP_THIS_OF_ANY", i>>
KEEP_ANY_ONE == <<"KEEP_ANY_ONE">>
KEEP_OLDEST == <<"KEEP_OLDEST">>
KEEP_NEWEST == <<"KEEP_NEWEST">>
None == <<"None">>
Some(t) == <<"Some", t>>
Ok(v) == [ok |-> TRUE, v |-> v]
Err(e) == [ok |-> FALSE, err |-> e]

\* Regex "^a", "^d", "^e", "^f": is_match
re_letter(s, c) == s # <<>> /\ s[1] = c
\* Regex "^b ([0-9]+)", "^c ([0-9]+)": is_match
re_indexed(s, c) ==
    Len(s) >= 3 /\ s[1] = c /\ s[2] = " " /\ IsDigit(s[3])
\* captures(s).get(1): the longest run of digits from the third character
RECURSIVE capture(_, _)
capture(s, i) ==
    IF i <= Len(s) /\ IsDigit(s[i]) THEN <<s[i]>> \o capture(s, i + 1)
    ELSE <<>>
\* str::parse::<usize>
RECURSIVE parse_usize(_, _)
parse_usize(digits, acc) ==
    IF digits = <<>> THEN acc
    ELSE parse_usize(Tail(digits),
                     10 * acc + (Ord(Head(digits)) - Ord("0")))

\* the body of from_str after the check of the default
parse_choice(s, max_idx, default) ==
    IF re_letter(s, "a") THEN Ok(KEEP_AS_IS)
    ELSE IF re_indexed(s, "b")
    THEN LET idx == parse_usize(capture(s, 3), 0) IN
         IF idx > max_idx
         THEN Err("Invalid index for Keep This of These strategy")
         ELSE Ok(KEEP_THIS_OF_THESE(idx))
    ELSE IF re_indexed(s, "c")
    THEN LET idx == parse_usize(capture(s, 3), 0) IN
         IF idx > max_idx
         THEN Err("Invalid index for Keep This Of Any strategy")
         ELSE Ok(KEEP_THIS_OF_ANY(idx))
    ELSE IF re_letter(s, "d") THEN Ok(KEEP_ANY_ONE)
    ELSE IF re_letter(s, "e") THEN Ok(KEEP_OLDEST)
    ELSE IF re_letter(s, "f") THEN Ok(KEEP_NEWEST)
    ELSE IF default = None THEN Err("No default keep strategy set")
    ELSE Ok(default[2])

\* a from_str that takes any default
from_str_any_default(s, max_idx, default) ==
    parse_choice(s, max_idx, default)

\* KeepStrategy::from_str
from_str(s, max_idx, default) ==
    IF default # None /\ default[2][1] = "KEEP_THIS_OF_THESE"
    THEN Err("Cannot use keep this of these rule as default rule")
    ELSE IF default # None /\ default[2][1] = "KEEP_THIS_OF_ANY"
    THEN Err("Cannot use keep this of any rule as default rule")
    ELSE parse_choice(s, max_idx, default)

\* the loop of pick_dups_for_rules
RECURSIVE pick_loop(_, _, _)
pick_loop(dupv, patterns, uniq_vec) ==
    IF dupv = <<>> THEN uniq_vec
    ELSE LET d == Head(dupv)
             vec == dir_vec(d)
             key == dir_key(vec) IN
         IF Len(vec) = 1 THEN pick_loop(Tail(dupv), patterns, uniq_vec)
         ELSE IF key \in patterns
         THEN pick_loop(Tail(dupv), patterns, uniq_vec)
         ELSE pick_loop(Tail(dupv), patterns \cup {key}, Append(uniq_vec, d))

\* a selection that keeps every group of several directories
pick_every_group(dupv) == SelectSeq(dupv, LAMBDA d : Len(dir_vec(d)) # 1)

pick_dups_for_rules(dupv) == pick_loop(dupv, {}, <<>>)

\* IndexMap::insert: the value of a key that is present is replaced in place
IndexMap_insert(m, key, value) ==
    IF \E i \in 1..Len(m) : m[i].key = key
    THEN LET i == CHOOSE i \in 1..Len(m) : m[i].key = key IN
         [m EXCEPT ![i].value = value]
    ELSE Append(m, [key |-> key, value |-> value])

\* the loop of collect_dup_path_rules; stdin holds the lines that read_line
\* will return, at end of input read_line leaves the choice empty; an Err
\* of from_str is unwrapped, which panics
RECURSIVE collect_loop(_, _, _)
collect_loop(cases, stdin, patterns) ==
    IF cases = <<>> THEN [ok |-> TRUE, patterns |-> patterns]
    ELSE LET c == Head(cases)
             vec == dir_vec(c)
             key == dir_key(vec)
             choice == IF stdin = <<>> THEN <<>> ELSE Head(stdin)
             rest == IF stdin = <<>> THEN <<>> ELSE Tail(stdin)
             choice_type == from_str(choice, Len(vec), Some(KEEP_AS_IS)) IN
         IF ~choice_type.ok THEN [ok |-> FALSE, patterns |-> <<>>]
         ELSE collect_loop(Tail(cases), rest,
                           IndexMap_insert(patterns, key,
                               [verdict |-> choice_type.v, paths |-> vec]))

\* collect_dup_path_rules, with the groups it asked about
collect_dup_path_rules(dupv, stdin) ==
    LET cases == pick_dups_for_rules(dupv)
        r == collect_loop(cases, stdin, <<>>) IN
    [ok |-> r.ok, patterns |-> r.patterns, cases |-> cases]

\* ---------------------------------------------------------------- actions
\* two catalogue files show the same media and files rows to a session
SameRows(d1, d2) == d1.media = d2.media /\ d1.files = d2.files

Faults == {p \in FsFiles : fs.state[p] # "ok"}

RECURSIVE SeqsUpTo(_, _)
SeqsUpTo(S, n) ==
    IF n = 0 THEN {<<>>}
    ELSE LET shorter == SeqsUpTo(S, n - 1) IN
         shorter \cup {Append(q, x) : q \in shorter, x \in S}

RootLists == SeqsUpTo(Roots, MaxRoots) \ {<<>>}
BufSizes == 1..MaxBuf

Ops == [topdirs : RootLists, bufsize : BufSizes, force_db_overwrite : BOOLEAN,
        force_read : BOOLEAN, force_sha512 : BOOLEAN, only_slowhash : BOOLEAN]

\* no catalogue file yet, no process running
Fresh ==
    /\ disk = NoDisk
    /\ pc = "idle"
    /\ op = NoOp
    /\ txn = NoTxn
    /\ queue = <<>>
    /\ oplog = <<>>
    /\ failed = {}
    /\ walked = {}
    /\ diag = <<>>
    /\ kept = TRUE
    /\ outcome = "none"
    /\ dups = <<>>
    /\ args = NoArgs
    /\ ret = NoRet

Init ==
    /\ fs \in [content : Trees, state : {[p \in FsFiles |-> "ok"]}]
    /\ Fresh

InitFaults ==
    /\ fs = [content |-> FaultTree, state |-> [p \in FsFiles |-> "ok"]]
    /\ Fresh

\* between two runs of the program a file of the tree loses its read
\* permission, or its medium goes bad; the tree does not change while a
\* pass runs
Degrade(p, st) ==
    /\ pc = "idle"
    /\ fs.state[p] = "ok"
    /\ Cardinality(Faults) < MaxFaults
    /\ fs' = [fs EXCEPT !.state[p] = st]
    /\ UNCHANGED <<disk, pc, op, txn, queue, oplog, failed, walked, diag, kept,
                   outcome, dups, args, ret>>

\* StashOperation::do_operation up to the start of the active traversal:
\* DataBase::new, DBTransaction::new, the dry run and try_add_medium
StashStart(o) ==
    /\ pc = "idle"
    /\ LET r == DataBase_new(disk, o.force_db_overwrite, o.force_sha512,
                             o.only_slowhash) IN
       /\ disk' = r.disk
       /\ IF r.ok
          THEN /\ pc' = "walking"
               /\ outcome' = "running"
               /\ txn' = [media |-> try_add_medium(r.disk.media, Medium),
                          files |-> r.disk.files]
               /\ queue' = traverse(o.topdirs)
          ELSE /\ pc' = "done"
               /\ outcome' = "refused"
               /\ txn' = NoTxn
               /\ queue' = <<>>
    /\ op' = o
    /\ kept' = SameRows(disk, disk')
    /\ oplog' = <<>>
    /\ failed' = {}
    /\ walked' = {}
    /\ diag' = <<>>
    /\ dups' = <<>>
    /\ UNCHANGED <<fs, args, ret>>

\* an end of the pass that leaves the rows written so far in the file
Abort_partial(how) ==
    /\ pc' = "done"
    /\ outcome' = how
    /\ disk' = [disk EXCEPT !.media = txn.media, !.files = txn.files]
    /\ kept' = (kept /\ SameRows(disk, disk'))
    /\ txn' = NoTxn
    /\ queue' = <<>>
    /\ UNCHANGED <<fs, op, dups>>

\* an end of the pass that takes the schema and the config back with it,
\* as if init_db had run inside the transaction
Abort_with_schema(how) ==
    /\ pc' = "done"
    /\ outcome' = how
    /\ disk' = IF disk.media = <<>> /\ disk.files = <<>> THEN NoDisk ELSE disk
    /\ kept' = (kept /\ SameRows(disk, disk'))
    /\ txn' = NoTxn
    /\ queue' = <<>>
    /\ UNCHANGED <<fs, op, dups>>

\* the pass ends in a panic or is killed: the transaction, never committed,
\* is rolled back
Abort(how) ==
    /\ pc' = "done"
    /\ outcome' = how
    /\ disk' = disk
    /\ kept' = (kept /\ SameRows(disk, disk'))
    /\ txn' = NoTxn
    /\ queue' = <<>>
    /\ UNCHANGED <<fs, op, dups>>

\* one call of the callback by the active traversal: File::open fails
RecordSkip ==
    /\ pc = "walking" /\ queue # <<>>
    /\ ~CanOpen(Head(queue))
    /\ diag' = Append(diag, <<"failed to open file", Head(queue)>>)
    /\ failed' = failed \cup {Head(queue)}
    /\ queue' = Tail(queue)
    /\ UNCHANGED <<fs, disk, pc, op, txn, oplog, walked, kept, outcome, dups,
                   args, ret>>

\* one call of the callback by the active traversal: the file is opened
Record ==
    /\ pc = "walking" /\ queue # <<>>
    /\ CanOpen(Head(queue))
    /\ UNCHANGED <<args, ret>>
    /\ \E m1, m2, m3 \in BOOLEAN, pick \in 0..Len(txn.files) :
         LET p == Head(queue)
             q == hash_filehandle(quick_hasher, OpenFile(p),
                                  Len(fs.content[p]), m1)
             found == IF op.only_slowhash \/ ~q.ok THEN {}
                      ELSE Matches(txn.files, q.digest)
             r == hash_and_store(p, m1, m2, m3, pick) IN
         /\ IF found = {} THEN pick = 0 ELSE pick \in found
         /\ IF r.ok
            THEN /\ txn' = [txn EXCEPT !.files = r.files]
                 /\ oplog' = oplog \o r.log
                 /\ walked' = walked \cup {p}
                 /\ queue' = Tail(queue)
                 /\ UNCHANGED <<fs, disk, pc, op, failed, diag, kept, outcome,
                                dups>>
            ELSE /\ Abort("panicked")
                 /\ diag' = Append(diag, r.err)
                 /\ UNCHANGED <<oplog, failed, walked>>

\* the end of do_operation: trans.commit()
Commit ==
    /\ pc = "walking" /\ queue = <<>>
    /\ disk' = [disk EXCEPT !.media = txn.media, !.files = txn.files]
    /\ pc' = "done"
    /\ outcome' = "committed"
    /\ txn' = NoTxn
    /\ kept' = (kept /\ SameRows(disk, disk'))
    /\ UNCHANGED <<fs, op, queue, oplog, failed, walked, diag, dups, args, ret>>

\* the process is interrupted while the transaction is open
Interrupt ==
    /\ pc = "walking"
    /\ Abort("interrupted")
    /\ UNCHANGED <<oplog, failed, walked, diag, args, ret>>

\* DupOperation::do_operation: for_reading and get_dups
DupOperation ==
    /\ pc = "idle"
    /\ pc' = "done"
    /\ IF for_reading(disk).ok
       THEN outcome' = "reported" /\ dups' = get_dups(disk.files)
       ELSE outcome' = "refused" /\ dups' = <<>>
    /\ op' = NoOp
    /\ kept' = TRUE
    /\ oplog' = <<>> /\ failed' = {} /\ walked' = {} /\ diag' = <<>>
    /\ UNCHANGED <<fs, disk, txn, queue, args, ret>>

\* the process has ended; the next one starts from the catalogue file
Exit ==
    /\ pc = "done"
    /\ pc' = "idle"
    /\ op' = NoOp
    /\ outcome' = "none"
    /\ kept' = TRUE
    /\ oplog' = <<>> /\ failed' = {} /\ walked' = {} /\ diag' = <<>>
    /\ dups' = <<>>
    /\ UNCHANGED <<fs, disk, txn, queue, args, ret>>

\* the program on a tree all of whose files can be opened and read
Next ==
    \/ \E o \in Ops : StashStart(o)
    \/ Record
    \/ Commit
    \/ Interrupt
    \/ DupOperation
    \/ Exit

Spec == Init /\ [][Next]_vars

\* the command lines run on that tree leave the hashing mode at its default
\* (force_sha512 and only_slowhash both absent): opening and reading a file
\* fail the same way in every mode
FaultOps == {o \in Ops : ~o.force_sha512 /\ ~o.only_slowhash}

\* the same program on a tree whose files may become unreadable
NextFaults ==
    \/ \E p \in FsFiles, st \in {"noopen", "badread"} : Degrade(p, st)
    \/ RecordSkip
    \/ \E o \in FaultOps : StashStart(o)
    \/ Record
    \/ Commit
    \/ Interrupt
    \/ DupOperation
    \/ Exit

SpecFaults == InitFaults /\ [][NextFaults]_vars

\* the same program with every buffer size that from_args accepts: "-b 0"
\* parses, and FileHasher::new then allocates a buffer of no bytes; the tree
\* is the one with two identical files
OpsAnyBuf == [topdirs : RootLists, bufsize : 0..MaxBuf,
              force_db_overwrite : BOOLEAN, force_read : BOOLEAN,
              force_sha512 : BOOLEAN, only_slowhash : BOOLEAN]

NextAnyBuf ==
    \/ \E o \in OpsAnyBuf : StashStart(o)
    \/ Record
    \/ Commit
    \/ Interrupt
    \/ DupOperation
    \/ Exit

SpecAnyBuf == InitFaults /\ [][NextAnyBuf]_vars

\* ------------------------------------------------ catalogues of any version
\* every value of the u16 that get_config_value parses the version into
Versions == 0..65535

\* a catalogue file as init_db of a build with version v leaves it
InitVersions ==
    /\ fs = [content |-> FaultTree, state |-> [p \in FsFiles |-> "ok"]]
    /\ disk \in {init_db(v, FALSE, FALSE) : v \in Versions}
    /\ pc = "idle"
    /\ op = NoOp
    /\ txn = NoTxn
    /\ queue = <<>>
    /\ oplog = <<>>
    /\ failed = {}
    /\ walked = {}
    /\ diag = <<>>
    /\ kept = TRUE
    /\ outcome = "none"
    /\ dups = <<>>
    /\ args = NoArgs
    /\ ret = NoRet

\* stash /b with or without -f and -l
VersionOps ==
    {o \in Ops : /\ o.topdirs = <<DirB>> /\ o.bufsize = 1
                 /\ ~o.force_read /\ ~o.force_sha512}

NextVersions ==
    \/ \E o \in VersionOps : StashStart(o)
    \/ Record
    \/ Commit
    \/ Interrupt
    \/ DupOperation
    \/ Exit

SpecVersions == InitVersions /\ [][NextVersions]_vars

\* ------------------------------------------- the duplicate scan on its own
\* Catalogues of up to MaxRows rows as strong-only passes leave them: every
\* row has its strong fingerprint and no fast one, the keys are distinct.
RowChoices == [path : {DirA, DirB}, bytes : Contents]

DrawnRow(i, c) ==
    [medium_id |-> 1, path |-> c.path, fname |-> ToString(i),
     fasthash |-> NULL, slowhash |-> Digest("md5", c.bytes),
     size |-> Len(c.bytes)]

DrawnFiles ==
    UNION {{[i \in 1..k |-> DrawnRow(i, c[i])] : c \in [1..k -> RowChoices]} :
           k \in 0..MaxRows}

InitDups ==
    /\ fs = [content |-> [p \in FsFiles |-> <<1>>],
             state |-> [p \in FsFiles |-> "ok"]]
    /\ disk \in {[exists |-> TRUE,
                  config |-> <<[version |-> DB_VERSION, force_sha512 |-> FALSE,
                                only_slowhash |-> TRUE]>>,
                  media |-> <<Medium>>, files |-> f] : f \in DrawnFiles}
    /\ pc = "idle"
    /\ op = NoOp
    /\ txn = NoTxn
    /\ queue = <<>>
    /\ oplog = <<>>
    /\ failed = {}
    /\ walked = {}
    /\ diag = <<>>
    /\ kept = TRUE
    /\ outcome = "none"
    /\ dups = <<>>
    /\ args = NoArgs
    /\ ret = NoRet

NextDups == DupOperation \/ Exit

SpecDups == InitDups /\ [][NextDups]_vars

\* ------------------------------------------- the prune planner on its own
\* the directories /a, /b, /c and the directory c inside the directory "b,"
PruneDirA == <<"/", "a">>
PruneDirB == <<"/", "b">>
PruneDirC == <<"/", "c">>
PruneDirBC == <<"/", "b", ",", "/", "c">>

\* the directories of the files of a group, in the order of the row stream
GroupShapes ==
    {<<PruneDirA, PruneDirA>>, <<PruneDirA, PruneDirB>>,
     <<PruneDirB, PruneDirA>>, <<PruneDirA, PruneDirC>>,
     <<PruneDirA, PruneDirA, PruneDirB>>, <<PruneDirB, PruneDirA, PruneDirA>>,
     <<PruneDirA, PruneDirB, PruneDirC>>, <<PruneDirA, PruneDirBC>>}

\* the g-th DupFile of a scan: its i-th file is named by the digits g and i
DrawnGroup(g, shape) ==
    LET digit(n) == Alphabet[Ord("0") + n]
        path(i) == shape[i] \o <<MAIN_SEPARATOR, digit(g), digit(i)>> IN
    [one_path |-> path(1),
     other_paths |-> [i \in 1..(Len(shape) - 1) |-> path(i + 1)],
     hash |-> Digest("md5", <<g>>), num_dups |-> Len(shape), size |-> 1]

DrawnGroups ==
    UNION {{[g \in 1..k |-> DrawnGroup(g, sh[g])] : sh \in [1..k -> GroupShapes]} :
           k \in 0..MaxGroups}

\* the lines typed at the prompts: "d" and "b 3"
PruneLines == {<<"d", "\n">>, <<"b", " ", "3", "\n">>}

PlanArgs == [fn : {"collect_dup_path_rules"}, groups : DrawnGroups,
             stdin : [1..MaxGroups -> PruneLines]]

\* the choices handed to from_str
ChoiceLines ==
    {<<"a", "\n">>,
     <<"a", "b", " ", "1", "\n">>,
     <<"b", " ", "0", "\n">>,
     <<"b", " ", "1", "\n">>,
     <<"b", " ", "3", "\n">>,
     <<"b", " ", "4", "\n">>,
     <<"b", " ", "1", "2", "\n">>,
     <<"b", "\n">>,
     <<"b", " ", "x", "\n">>,
     <<"b", " ", "1", "x", "\n">>,
     <<"c", " ", "0", "\n">>,
     <<"c", " ", "2", "\n">>,
     <<"c", " ", "4", "\n">>,
     <<"d", "\n">>,
     <<"e", "\n">>,
     <<"f", "\n">>,
     <<"x", "\n">>,
     <<>>,
     <<" ", "a", "\n">>,
     <<"\n">>}

Defaults ==
    {None} \cup {Some(k) : k \in {KEEP_AS_IS, KEEP_THIS_OF_THESE(1),
                                  KEEP_THIS_OF_ANY(1), KEEP_ANY_ONE,
                                  KEEP_OLDEST, KEEP_NEWEST}}

ParseArgs == [fn : {"from_str"}, s : ChoiceLines, max_idx : 0..MaxIdx,
              default : Defaults]

InitPrune ==
    /\ fs = [content |-> FaultTree, state |-> [p \in FsFiles |-> "ok"]]
    /\ disk = NoDisk
    /\ pc = "idle"
    /\ op = NoOp
    /\ txn = NoTxn
    /\ queue = <<>>
    /\ oplog = <<>>
    /\ failed = {}
    /\ walked = {}
    /\ diag = <<>>
    /\ kept = TRUE
    /\ outcome = "none"
    /\ dups = <<>>
    /\ args \in PlanArgs \cup ParseArgs
    /\ ret = NoRet

\* collect_dup_path_rules, and path_sig on each group, applied to the
\* drawn groups
PrunePlan ==
    /\ args.fn = "collect_dup_path_rules" /\ ~ret.done
    /\ ret' = [done |-> TRUE,
               plan |-> collect_dup_path_rules(args.groups, args.stdin),
               sigs |-> [i \in 1..Len(args.groups) |->
                           path_sig(args.groups[i])]]
    /\ UNCHANGED <<fs, disk, pc, op, txn, queue, oplog, failed, walked, diag,
                   kept, outcome, dups, args>>

\* KeepStrategy::from_str applied to the drawn choice
ParseChoice ==
    /\ args.fn = "from_str" /\ ~ret.done
    /\ ret' = [done |-> TRUE,
               res |-> from_str(args.s, args.max_idx, args.default)]
    /\ UNCHANGED <<fs, disk, pc, op, txn, queue, oplog, failed, walked, diag,
                   kept, outcome, dups, args>>

NextPrune == PrunePlan \/ ParseChoice

SpecPrune == InitPrune /\ [][NextPrune]_vars

\* ------------------------------------------------- the hasher on its own
\* the contents of the files that are hashed, the empty file among them
HashContents == {<<>>, <<1>>, <<1, 2>>, <<2, 1, 1>>}

\* a file of the tree and whether its mapping succeeds
TreeFiles == [bytes : HashContents, mmap_ok : BOOLEAN]

\* the buffer sizes a FileHasher is built with, none included
HashBufSizes == 0..(MaxBuf + 1)

\* one FileHasher hashes the files of a tree, and then the same tree again
HashArgs == [fn : {"hash_filehandle"}, algo : {"xxh3", "md5", "sha512"},
             bufsz : HashBufSizes, force_read : BOOLEAN,
             files : SeqsUpTo(TreeFiles, MaxFiles) \ {<<>>}]

\* one file read through the buffer: its bytes, the size declared for it,
\* the buffer size and what the first reads return at most
ReadArgs == [fn : {"read_loop"}, bytes : HashContents, file_size : 0..MaxSize,
             bufsz : HashBufSizes, caps : SeqsUpTo(1..(MaxBuf + 1), MaxReads)]

InitHasher ==
    /\ fs = [content |-> FaultTree, state |-> [p \in FsFiles |-> "ok"]]
    /\ disk = NoDisk
    /\ pc = "idle"
    /\ op = NoOp
    /\ txn = NoTxn
    /\ queue = <<>>
    /\ oplog = <<>>
    /\ failed = {}
    /\ walked = {}
    /\ diag = <<>>
    /\ kept = TRUE
    /\ outcome = "none"
    /\ dups = <<>>
    /\ args \in HashArgs \cup ReadArgs
    /\ ret = NoRet

\* a freshly opened file
FreshHandle(bytes) == [bytes |-> bytes, pos |-> 0, badread |-> FALSE]

\* the calls of hash_filehandle of the two passes over the tree
HashCalls == args.files \o args.files

\* do_operation builds the FileHasher
HashNew ==
    /\ args.fn = "hash_filehandle" /\ ret = NoRet
    /\ ret' = [done |-> FALSE,
               fh |-> FileHasher_new(ByteHasher_new(args.algo), args.bufsz,
                                     args.force_read),
               digests |-> <<>>, feds |-> <<>>]
    /\ UNCHANGED <<fs, disk, pc, op, txn, queue, oplog, failed, walked, diag,
                   kept, outcome, dups, args>>

\* the next file is opened and hashed; its size is the one its metadata
\* gives
HashCall ==
    /\ args.fn = "hash_filehandle" /\ ret # NoRet
    /\ ~ret.done
    /\ LET k == Len(ret.digests) + 1
           c == HashCalls[k]
           r == FileHasher_hash_filehandle(ret.fh, FreshHandle(c.bytes),
                                           Len(c.bytes), c.mmap_ok, <<>>) IN
       ret' = [done |-> k = Len(HashCalls), fh |-> r.fh,
               digests |-> Append(ret.digests, r.digest),
               feds |-> Append(ret.feds, r.fed)]
    /\ UNCHANGED <<fs, disk, pc, op, txn, queue, oplog, failed, walked, diag,
                   kept, outcome, dups, args>>

\* hash_filehandle on its buffered path, applied to the drawn file
ReadFile ==
    /\ args.fn = "read_loop" /\ ret = NoRet
    /\ ret' = [done |-> TRUE,
               r |-> FileHasher_hash_filehandle(
                        FileHasher_new(ByteHasher_new("md5"), args.bufsz, TRUE),
                        FreshHandle(args.bytes), args.file_size, FALSE,
                        args.caps)]
    /\ UNCHANGED <<fs, disk, pc, op, txn, queue, oplog, failed, walked, diag,
                   kept, outcome, dups, args>>

NextHasher == HashNew \/ HashCall \/ ReadFile

SpecHasher == InitHasher /\ [][NextHasher]_vars

\* ------------------------------------------------ the traversal on its own
\* The entries the directory walker yields, the ones that are no regular
\* files included: the directories, the symbolic link /b/l, and an error in
\* place of the contents of a directory that cannot be read.
LinkL == <<"b", "l">>
WalkOrder == <<DirA, FileX, DirS, FileY, DirB, FileZ, LinkL>>

\* DirEntry::file_type
file_type(p) ==
    IF p \in FsFiles THEN "file" ELSE IF p \in Roots THEN "dir" ELSE "symlink"

\* p lies below a directory that cannot be read
Hidden(p, unreadable) == \E d \in unreadable : d # p /\ IsPrefix(d, p)

\* the items of WalkDir::new(dir): Ok(entry) or Err(error)
RECURSIVE walk_from(_, _, _)
walk_from(order, dir, unreadable) ==
    IF order = <<>> THEN <<>>
    ELSE LET p == Head(order)
             here == IF ~IsPrefix(dir, p) \/ Hidden(p, unreadable) THEN <<>>
                     ELSE IF p \in unreadable
                     THEN <<[ok |-> TRUE, path |-> p],
                            [ok |-> FALSE, path |-> p]>>
                     ELSE <<[ok |-> TRUE, path |-> p]>> IN
         here \o walk_from(Tail(order), dir, unreadable)
WalkDir_new(dir, unreadable) == walk_from(WalkOrder, dir, unreadable)

\* a visit that hands the file to the callback in a dry run too
visit_no_dry_run(dry_run, acc, entry) ==
    IF entry.ok
    THEN IF file_type(entry.path) = "file"
         THEN [acc EXCEPT !.n_entries = @ + 1,
                          !.called = Append(@, entry.path)]
         ELSE acc
    ELSE [acc EXCEPT !.reported = Append(@, entry.path)]

\* the body of the loops of traverse for one item of the walk: n_entries,
\* the entries handed to file_processor so far, and the errors printed
visit(dry_run, acc, entry) ==
    IF entry.ok
    THEN IF file_type(entry.path) = "file"
         THEN [acc EXCEPT !.n_entries = @ + 1,
                          !.called = IF ~dry_run THEN Append(@, entry.path)
                                     ELSE @]
         ELSE acc
    ELSE [acc EXCEPT !.reported = Append(@, entry.path)]

RECURSIVE visit_entries(_, _, _)
visit_entries(dry_run, acc, items) ==
    IF items = <<>> THEN acc
    ELSE visit_entries(dry_run, visit(dry_run, acc, Head(items)), Tail(items))

RECURSIVE visit_roots(_, _, _, _)
visit_roots(dry_run, acc, topdirs, unreadable) ==
    IF topdirs = <<>> THEN acc
    ELSE visit_roots(dry_run,
                     visit_entries(dry_run, acc,
                                   WalkDir_new(Head(topdirs), unreadable)),
                     Tail(topdirs), unreadable)

\* FileVisitor::traverse with its return value n_entries
FileVisitor_traverse(dry_run, topdirs, unreadable) ==
    visit_roots(dry_run, [n_entries |-> 0, called |-> <<>>, reported |-> <<>>],
                topdirs, unreadable)

WalkArgs == [fn : {"traverse"}, topdirs : RootLists, unreadable : SUBSET Roots]

InitWalk ==
    /\ fs = [content |-> FaultTree, state |-> [p \in FsFiles |-> "ok"]]
    /\ disk = NoDisk
    /\ pc = "idle"
    /\ op = NoOp
    /\ txn = NoTxn
    /\ queue = <<>>
    /\ oplog = <<>>
    /\ failed = {}
    /\ walked = {}
    /\ diag = <<>>
    /\ kept = TRUE
    /\ outcome = "none"
    /\ dups = <<>>
    /\ args \in WalkArgs
    /\ ret = NoRet

\* fv_dry_run.traverse(&self.topdirs, 0)
DryRun ==
    /\ args.fn = "traverse" /\ ret = NoRet
    /\ ret' = [done |-> FALSE,
               dry |-> FileVisitor_traverse(TRUE, args.topdirs,
                                            args.unreadable)]
    /\ UNCHANGED <<fs, disk, pc, op, txn, queue, oplog, failed, walked, diag,
                   kept, outcome, dups, args>>

\* fv_actual.traverse(&self.topdirs, n_items), the tree being as it was
ActualRun ==
    /\ args.fn = "traverse" /\ ret # NoRet
    /\ ~ret.done
    /\ ret' = [done |-> TRUE, dry |-> ret.dry,
               actual |-> FileVisitor_traverse(FALSE, args.topdirs,
                                               args.unreadable)]
    /\ UNCHANGED <<fs, disk, pc, op, txn, queue, oplog, failed, walked, diag,
                   kept, outcome, dups, args>>

NextWalk == DryRun \/ ActualRun

SpecWalk == InitWalk /\ [][NextWalk]_vars

\* ------------------------------------------------------------- properties
TwoTier(d) == is_initialized(d) /\ ~d.config[1].only_slowhash
StrongAlgo(d) == IF d.config[1].force_sha512 THEN "sha512" ELSE "md5"
RowPath(r) == JoinPath(r.path, r.fname)
SharesFast(files, h) == \E i \in 1..Len(files) : files[i].fasthash = h
\* one call of hash_and_store wrote the row of its file
Recorded ==
    /\ pc = "walking" /\ pc' = "walking"
    /\ Len(txn'.files) = Len(txn.files) + 1
NewRow == txn'.files[Len(txn'.files)]
Aborted == outcome \in {"panicked", "interrupted"}

\* C1: in two-tier mode, when a file is recorded whose fast fingerprint
\* equals the fast_fp of a row already in the catalogue, the step first
\* updates one such row P, then inserts the new row, inside the one open
\* transaction, and afterwards both P and the new row have a strong_fp.
C1_Step ==
    (Recorded /\ ~op.only_slowhash /\ SharesFast(txn.files, NewRow.fasthash))
    => LET n == Len(oplog) IN
       /\ Len(oplog') = n + 2
       /\ oplog'[n + 1].kind = "update"
       /\ oplog'[n + 1].rowid \in 1..Len(txn.files)
       /\ txn.files[oplog'[n + 1].rowid].fasthash = NewRow.fasthash
       /\ txn'.files[oplog'[n + 1].rowid].slowhash # NULL
       /\ oplog'[n + 2] = [kind |-> "insert", rowid |-> Len(txn'.files)]
       /\ NewRow.slowhash # NULL
C1_PromotionOnCollision == [][C1_Step]_vars

\* a newcomer collided with a row committed by an earlier session
C1_Witness ==
    /\ pc = "walking" /\ ~op.only_slowhash
    /\ \E i \in 1..(Len(oplog) - 1) :
          /\ oplog[i].kind = "update"
          /\ oplog[i].rowid <= Len(disk.files)
          /\ oplog[i + 1].kind = "insert"

\* C2: a file recorded after a fast-fingerprint collision gets, as the
\* strong_fp of its new row, the strong digest of its complete content,
\* with memory mapping as well as on the buffered path.
C2_Step ==
    (Recorded /\ ~op.only_slowhash /\ SharesFast(txn.files, NewRow.fasthash))
    => NewRow.slowhash = Digest(StrongAlgo(disk), fs.content[RowPath(NewRow)])
C2_NewcomerStrongIsContentDigest == [][C2_Step]_vars

\* C3: in a catalogue filled in two-tier mode, every row whose fast_fp is
\* shared by another row has a strong_fp, inside a pass and once committed.
NoUnpromoted(files) ==
    \A i, j \in 1..Len(files) :
        (i # j /\ files[i].fasthash # NULL
               /\ files[i].fasthash = files[j].fasthash)
        => files[i].slowhash # NULL
C3_NoUnpromotedRow ==
    TwoTier(disk) =>
        /\ NoUnpromoted(disk.files)
        /\ (pc = "walking" => NoUnpromoted(txn.files))

\* three rows share a fast fingerprint and the probe returned the second
C3_Witness ==
    /\ outcome = "committed" /\ TwoTier(disk)
    /\ Len(disk.files) = 3
    /\ \A i \in 1..3 : disk.files[i].fasthash = disk.files[1].fasthash
    /\ \E i \in 1..Len(oplog) : oplog[i] = [kind |-> "update", rowid |-> 2]

\* C4: in every committed catalogue, in every configuration, two rows with
\* equal non-null strong_fp have equal size and identical content.
C4_EqualStrongEqualContent ==
    \A i, j \in 1..Len(disk.files) :
        (disk.files[i].slowhash # NULL
         /\ disk.files[i].slowhash = disk.files[j].slowhash)
        => /\ disk.files[i].size = disk.files[j].size
           /\ fs.content[RowPath(disk.files[i])]
                = fs.content[RowPath(disk.files[j])]

\* C5: two files with identical content indexed in two-tier mode end with
\* equal non-null strong_fp, and the duplicate scan returns them in one
\* group whose cardinality counts both, with their fingerprint and size.
C5_IdenticalFilesGrouped ==
    TwoTier(disk) =>
    \A i, j \in 1..Len(disk.files) :
        (i # j /\ fs.content[RowPath(disk.files[i])]
                    = fs.content[RowPath(disk.files[j])])
        => /\ disk.files[i].slowhash # NULL
           /\ disk.files[i].slowhash = disk.files[j].slowhash
           /\ outcome = "reported" =>
                \E k \in 1..Len(dups) :
                    LET paths == {dups[k].one_path} \cup
                                 {dups[k].other_paths[m] :
                                    m \in 1..Len(dups[k].other_paths)} IN
                    /\ RowPath(disk.files[i]) \in paths
                    /\ RowPath(disk.files[j]) \in paths
                    /\ dups[k].num_dups = Cardinality(paths)
                    /\ dups[k].hash = disk.files[i].slowhash
                    /\ dups[k].size = disk.files[i].size

C7_Step ==
    (/\ pc = "idle" /\ op'.topdirs # <<>>
     /\ is_initialized(disk) /\ ~op'.force_db_overwrite
     /\ \/ op'.force_sha512 # disk.config[1].force_sha512
        \/ op'.only_slowhash # disk.config[1].only_slowhash)
    => /\ outcome' = "refused" /\ pc' = "done"
       /\ disk' = disk
       /\ txn' = NoTxn /\ oplog' = <<>> /\ queue' = <<>>
C7_FlagMismatchRefused == [][C7_Step]_vars

C7_Witness ==
    /\ outcome = "refused" /\ op.topdirs # <<>> /\ ~op.force_db_overwrite
    /\ disk.files # <<>>
    /\ op.only_slowhash # disk.config[1].only_slowhash

\* C8 as stated: after a pass that ended abnormally with its transaction
\* open, the media and files rows are exactly those from before the pass.
C8_AbortKeepsRows == Aborted => kept

\* C8 amended: after such a pass the rows are those from before the pass,
\* or, when the pass was started with overwrite, there are none; no row of
\* the aborted pass is visible in either case.
C8_AbortKeepsRowsUnlessOverwrite ==
    Aborted => IF op.force_db_overwrite
               THEN disk.media = <<>> /\ disk.files = <<>>
               ELSE kept

\* a pass on a catalogue that has rows wrote rows and then panicked
C8_Witness ==
    /\ outcome = "panicked" /\ ~op.force_db_overwrite
    /\ disk.files # <<>>
    /\ \E i \in 1..Len(oplog) : oplog[i].kind = "insert"

\* C9: a failure to open a walked file, or an I/O error while reading it,
\* costs only that file: a diagnostic, no row, and the pass goes on with
\* the next file.
C9_Step ==
    (/\ pc = "walking" /\ queue # <<>>
     /\ Len(diag') = Len(diag) + 1
     /\ diag'[Len(diag')] \in {<<"failed to open file", Head(queue)>>,
                               <<"error reading file!", Head(queue)>>})
    => /\ pc' = "walking"
       /\ txn' = txn
       /\ queue' = Tail(queue)
C9_FileErrorSkipsFile == [][C9_Step]_vars

\* C10: after a completed pass on a catalogue that had no rows, the keys of
\* the files table are the files below the roots minus those whose open
\* failed.
Enumerated ==
    {p \in FsFiles : \E i \in 1..Len(op.topdirs) : IsPrefix(op.topdirs[i], p)}
Keys(d) ==
    {<<d.media[d.files[i].medium_id], d.files[i].path, d.files[i].fname>> :
        i \in 1..Len(d.files)}
C10_KeysAreWalkedFiles ==
    (/\ outcome = "committed"
     /\ Cardinality({i \in 1..Len(oplog) : oplog[i].kind = "insert"})
          = Len(disk.files))
    => /\ Keys(disk) = {<<Medium, Parent(p), FileName(p)>> :
                           p \in Enumerated \ failed}
       /\ Cardinality(Keys(disk)) = Len(disk.files)

\* a pass over two roots, one inside the other, with a file that fails to open
C10_Witness ==
    /\ outcome = "committed"
    /\ Len(op.topdirs) = 2 /\ op.topdirs[1] # op.topdirs[2]
    /\ IsPrefix(op.topdirs[2], op.topdirs[1])
    /\ failed # {} /\ disk.files # <<>>
    /\ Cardinality({i \in 1..Len(oplog) : oplog[i].kind = "insert"})
          = Len(disk.files)

\* C11: in a catalogue filled in two-tier mode a committed row has a
\* strong_fp only if another committed row shares its fast_fp; a file
\* recorded when no row matches its fast fingerprint is inserted with its
\* fast_fp and a null strong_fp and no row is updated; a catalogue whose
\* fast fingerprints are pairwise distinct has no strong_fp at all and the
\* duplicate scan returns no group.
HasSibling(files, i) ==
    \E j \in 1..Len(files) : j # i /\ files[j].fasthash = files[i].fasthash
DistinctFast(files) == \A i \in 1..Len(files) : ~HasSibling(files, i)
C11_Step ==
    /\ TwoTier(disk') =>
          \A i \in 1..Len(disk'.files) :
              disk'.files[i].slowhash # NULL => HasSibling(disk'.files, i)
    /\ (Recorded /\ ~op.only_slowhash
          /\ ~SharesFast(txn.files, NewRow.fasthash))
       => /\ NewRow.fasthash # NULL
          /\ NewRow.slowhash = NULL
          /\ txn'.files = Append(txn.files, NewRow)
    /\ (TwoTier(disk') /\ DistinctFast(disk'.files))
       => /\ \A i \in 1..Len(disk'.files) : disk'.files[i].slowhash = NULL
          /\ outcome' = "reported" => dups' = <<>>
C11_StrongOnlyWithSibling == [][C11_Step]_vars

\* two files with different fast fingerprints were indexed and scanned
C11_Witness ==
    /\ outcome = "reported" /\ TwoTier(disk)
    /\ Len(disk.files) = 2
    /\ disk.files[1].fasthash # NULL /\ disk.files[2].fasthash # NULL
    /\ disk.files[1].fasthash # disk.files[2].fasthash
    /\ disk.files[1].slowhash = NULL /\ disk.files[2].slowhash = NULL
    /\ dups = <<>>

\* C12: in strong-only mode recording a file runs neither the probe nor the
\* promotion update, and the inserted row has a null fast_fp and the strong
\* digest of the file's content as strong_fp; two files with identical
\* content are then returned by the duplicate scan as one group, of
\* cardinality 2 when no third file has that content.
SameContent(files, i) ==
    {j \in 1..Len(files) :
        fs.content[RowPath(files[j])] = fs.content[RowPath(files[i])]}
C12_Step ==
    /\ (Recorded /\ op.only_slowhash)
       => /\ txn'.files = Append(txn.files, NewRow)
          /\ oplog' = Append(oplog, [kind |-> "insert",
                                      rowid |-> Len(txn'.files)])
          /\ NewRow.fasthash = NULL
          /\ NewRow.slowhash
               = Digest(StrongAlgo(disk), fs.content[RowPath(NewRow)])
    /\ (outcome' = "reported" /\ is_initialized(disk')
          /\ disk'.config[1].only_slowhash)
       => \A i, j \in 1..Len(disk'.files) :
            (i # j /\ j \in SameContent(disk'.files, i))
            => \E k \in 1..Len(dups') :
                 /\ {RowPath(disk'.files[i]), RowPath(disk'.files[j])}
                      \subseteq ({dups'[k].one_path} \cup
                                 {dups'[k].other_paths[m] :
                                    m \in 1..Len(dups'[k].other_paths)})
                 /\ dups'[k].num_dups
                      = Cardinality(SameContent(disk'.files, i))
C12_StrongOnlyRows == [][C12_Step]_vars

\* C13: for every 16-bit stored schema version, the read-only open, and the
\* writable open without overwrite and with the stored flags, accept the
\* catalogue if and only if the major byte of the version is 0x01, whatever
\* the minor byte; otherwise the open is fatal and the file is untouched.
MajorIsOne(d) == d.config[1].version \in 256..511
C13_Step ==
    (pc = "idle" /\ is_initialized(disk))
    => /\ (pc' = "done" /\ op' = NoOp)
          => /\ outcome' = "reported" <=> MajorIsOne(disk)
             /\ outcome' = "refused" <=> ~MajorIsOne(disk)
       /\ (/\ op'.topdirs # <<>> /\ ~op'.force_db_overwrite
           /\ op'.force_sha512 = disk.config[1].force_sha512
           /\ op'.only_slowhash = disk.config[1].only_slowhash)
          => /\ pc' = "walking" <=> MajorIsOne(disk)
             /\ ~MajorIsOne(disk) => /\ pc' = "done" /\ outcome' = "refused"
                                     /\ disk' = disk /\ txn' = NoTxn
C13_MajorByteGate == [][C13_Step]_vars

\* a catalogue of version 0x01ff was opened for writing and accepted
C13_Witness ==
    /\ pc = "walking" /\ ~op.force_db_overwrite
    /\ disk.config[1].version = 511

\* the planner was applied to the drawn groups
Planned == ret.done /\ args.fn = "collect_dup_path_rules"
Parsed == ret.done /\ args.fn = "from_str"
DirSet(d) ==
    {parent_or_root(d.one_path)} \cup
    {parent_or_root(d.other_paths[i]) : i \in 1..Len(d.other_paths)}
MultiDir(d) == Cardinality(DirSet(d)) >= 2

\* C14: the keys of the map returned by collect_dup_path_rules are pairwise
\* distinct, the directory list of every rule has at least two entries,
\* all different, and a group whose paths lie in one directory is never a
\* case of the planner, so that the map has no more entries than there are
\* groups of several directories.
C14_KeysDistinctMultiDir ==
    Planned =>
    LET m == ret.plan.patterns
        cases == ret.plan.cases IN
    /\ \A i, j \in 1..Len(m) : i # j => m[i].key # m[j].key
    /\ \A i \in 1..Len(m) :
          /\ Len(m[i].value.paths) >= 2
          /\ \A a, b \in 1..Len(m[i].value.paths) :
                a # b => m[i].value.paths[a] # m[i].value.paths[b]
    /\ \A g \in 1..Len(args.groups) :
          ~MultiDir(args.groups[g])
          => \A k \in 1..Len(cases) : cases[k] # args.groups[g]
    /\ Len(m) <= Cardinality({g \in 1..Len(args.groups) :
                                MultiDir(args.groups[g])})

\* three groups, a pair in one directory among them, gave two rules
C14_Witness ==
    /\ Planned /\ ret.plan.ok
    /\ Len(args.groups) = 3
    /\ \E g \in 1..3 : /\ ~MultiDir(args.groups[g])
                        /\ args.groups[g].num_dups = 2
    /\ Len(ret.plan.patterns) = 2

\* C15: the planner asks about exactly the groups that are the first, in
\* input order, to show their signature among the groups of several
\* directories, in that order; the returned map has one entry per such
\* group, keyed by its signature, in the same order.
FirstOfSig(groups) ==
    {i \in 1..Len(groups) :
        /\ MultiDir(groups[i])
        /\ \A j \in 1..(i - 1) :
              MultiDir(groups[j]) => path_sig(groups[j]) # path_sig(groups[i])}
C15_OneDecisionPerSignature ==
    Planned =>
    LET groups == args.groups
        cases == ret.plan.cases
        m == ret.plan.patterns IN
    /\ cases = SelectSeq(groups,
                  LAMBDA d : \E i \in FirstOfSig(groups) : groups[i] = d)
    /\ ret.plan.ok
       => /\ Len(m) = Len(cases)
          /\ \A k \in 1..Len(m) : m[k].key = path_sig(cases[k])

\* the first and the third group share a signature, the second has another
C15_Witness ==
    /\ Planned /\ ret.plan.ok
    /\ Len(args.groups) = 3
    /\ \A g \in 1..3 : MultiDir(args.groups[g])
    /\ ret.sigs[1] = ret.sigs[3] /\ ret.sigs[1] # ret.sigs[2]
    /\ Len(ret.plan.patterns) = 2
    /\ ret.plan.patterns[1].key = ret.sigs[1]
    /\ ret.plan.patterns[2].key = ret.sigs[2]

\* C16: from_str returns KEEP_THIS_OF_THESE(N) or KEEP_THIS_OF_ANY(N) only
\* for 1 <= N <= max_idx, the size of what was presented; every other N,
\* 0 included, is an error.
C16_IndexInRange ==
    (Parsed /\ ret.res.ok
       /\ ret.res.v[1] \in {"KEEP_THIS_OF_THESE", "KEEP_THIS_OF_ANY"})
    => ret.res.v[2] \in 1..args.max_idx

\* C17: from_str is an error for every input when the default is one of the
\* two indexed variants; with another default or none, a choice that starts
\* with a, d, e or f gives its own variant, and a choice that matches none
\* of a to f gives the default, or an error when there is none.
NamedDefault(d) ==
    d # None /\ d[2][1] \in {"KEEP_THIS_OF_THESE", "KEEP_THIS_OF_ANY"}
StartsWith(s, c) == Len(s) >= 1 /\ s[1] = c
Unrecognised(s) ==
    /\ \A c \in {"a", "d", "e", "f"} : ~StartsWith(s, c)
    /\ ~(/\ Len(s) >= 3 /\ s[1] \in {"b", "c"} /\ s[2] = " "
         /\ s[3] \in {"0", "1", "2", "3", "4", "5", "6", "7", "8", "9"})
C17_DefaultRule ==
    Parsed =>
    LET s == args.s
        d == args.default
        r == ret.res IN
    IF NamedDefault(d) THEN ~r.ok
    ELSE /\ StartsWith(s, "a") => r.ok /\ r.v = KEEP_AS_IS
         /\ StartsWith(s, "d") => r.ok /\ r.v = KEEP_ANY_ONE
         /\ StartsWith(s, "e") => r.ok /\ r.v = KEEP_OLDEST
         /\ StartsWith(s, "f") => r.ok /\ r.v = KEEP_NEWEST
         /\ Unrecognised(s) => IF d = None THEN ~r.ok
                               ELSE r.ok /\ r.v = d[2]

\* the choice "x" fell back to the default KEEP_OLDEST
C17_Witness ==
    /\ Parsed /\ args.s = <<"x", "\n">> /\ args.default = Some(KEEP_OLDEST)
    /\ ret.res.ok /\ ret.res.v = KEEP_OLDEST

\* C20: the signature of a group is a function of the set of the parent
\* directories of its paths: groups with the same set have the same
\* path_sig, every reordering of the paths of a group has the path_sig of
\* the group, and the key under which the planner files a group is its
\* path_sig.
Reorderings(d) ==
    LET paths == <<d.one_path>> \o d.other_paths
        n == Len(paths) IN
    {[d EXCEPT !.one_path = paths[f[1]],
               !.other_paths = [i \in 1..(n - 1) |-> paths[f[i + 1]]]] :
        f \in {h \in [1..n -> 1..n] : \A a, b \in 1..n : a # b => h[a] # h[b]}}
C20_SignatureOfDirSet ==
    Planned =>
    LET groups == args.groups IN
    /\ \A i, j \in 1..Len(groups) :
          DirSet(groups[i]) = DirSet(groups[j]) => ret.sigs[i] = ret.sigs[j]
    /\ \A i \in 1..Len(groups) :
          \A e \in Reorderings(groups[i]) : path_sig(e) = ret.sigs[i]
    /\ ret.plan.ok
       => \A k \in 1..Len(ret.plan.patterns) :
            \E i \in 1..Len(groups) :
               /\ groups[i] = ret.plan.cases[k]
               /\ ret.plan.patterns[k].key = ret.sigs[i]

\* two groups over the same two directories, one of them with a directory
\* twice and with its first path in the other directory
C20_Witness ==
    /\ Planned /\ ret.plan.ok /\ Len(ret.plan.patterns) = 1
    /\ \E i, j \in 1..Len(args.groups) :
          /\ DirSet(args.groups[i]) = DirSet(args.groups[j])
          /\ MultiDir(args.groups[i])
          /\ args.groups[i].num_dups = 2 /\ args.groups[j].num_dups = 3
          /\ parent_or_root(args.groups[i].one_path)
               # parent_or_root(args.groups[j].one_path)

\* C18: within a pass the promotion update is applied only to a row whose
\* strong_fp is still null, so that the strong_fp of a row is written at
\* most once.
C18_Step ==
    (pc = "walking" /\ pc' = "walking")
    => \A k \in (Len(oplog) + 1)..Len(oplog') :
          oplog'[k].kind = "update"
          => txn.files[oplog'[k].rowid].slowhash = NULL
C19_Step ==
    /\ (pc = "idle" /\ for_reading(disk).ok)
       => /\ for_reading(disk).force_sha512 = disk.config[1].force_sha512
          /\ for_reading(disk).only_slowhash = disk.config[1].only_slowhash
          /\ (pc' = "done" /\ op' = NoOp)
             => outcome' = "reported" /\ disk' = disk
          /\ (/\ op'.topdirs # <<>> /\ ~op'.force_db_overwrite
              /\ op'.force_sha512 = for_reading(disk).force_sha512
              /\ op'.only_slowhash = for_reading(disk).only_slowhash)
             => /\ pc' = "walking"
                /\ disk' = disk
                /\ txn'.files = disk.files
    /\ pc = "done" => disk' = disk
C19_ReopenKeepsRows == [][C19_Step]_vars

\* a catalogue with rows was opened for writing with its stored flags
C19_Witness ==
    /\ pc = "walking" /\ ~op.force_db_overwrite
    /\ oplog = <<>> /\ walked = {} /\ kept
    /\ Len(disk.files) >= 2 /\ disk.media = <<Medium>>
    /\ op.force_sha512 = for_reading(disk).force_sha512
    /\ op.only_slowhash = for_reading(disk).only_slowhash

\* C21: a FileHasher that is reused is stateless between calls.  Every call
\* of hash_filehandle on a freshly opened file returns the digest that a
\* FileHasher never used before returns for that file, and has fed the
\* hasher what that one feeds it; with a buffer of at least one byte the
\* digest is the digest of the bytes of the file, whether the file is
\* mapped or read; the second pass over the same tree returns, file by
\* file, the digests of the first.
Hashing == args.fn = "hash_filehandle" /\ ret # NoRet
C21_HasherStateless ==
    Hashing =>
    LET n == Len(args.files)
        unused == FileHasher_new(ByteHasher_new(args.algo), args.bufsz,
                                 args.force_read) IN
    \A k \in 1..Len(ret.digests) :
        LET c == HashCalls[k]
            alone == FileHasher_hash_filehandle(unused, FreshHandle(c.bytes),
                                                Len(c.bytes), c.mmap_ok, <<>>)
        IN
        /\ ret.digests[k] = alone.digest
        /\ ret.feds[k] = alone.fed
        /\ ret.digests[k]
             = hash_filehandle([algo |-> args.algo, bufsz |-> args.bufsz,
                                force_read |-> args.force_read],
                               FreshHandle(c.bytes), Len(c.bytes),
                               c.mmap_ok).digest
        /\ args.bufsz >= 1 => ret.digests[k] = Digest(args.algo, c.bytes)
        /\ k > n => ret.digests[k] = ret.digests[k - n]

\* two files of different content were read through the buffer, twice
C21_Witness ==
    /\ Hashing /\ ret.done
    /\ args.force_read /\ args.bufsz = 1
    /\ Len(args.files) = 2 /\ Len(ret.digests) = 4
    /\ args.files[1].bytes = <<1, 2>> /\ args.files[2].bytes = <<2, 1, 1>>
    /\ ret.digests[1] # ret.digests[2]
    /\ ret.digests[3] = ret.digests[1] /\ ret.digests[4] = ret.digests[2]

\* C23: on the buffered path the read loop stops when a read signals the
\* end of the file or as soon as the number of bytes fed so far equals the
\* declared size, not before and not later, and what was fed is the bytes
\* of the file from its start, each once and in order.
Reading == args.fn = "read_loop" /\ ret # NoRet
FedAfter(reads, k) == SumBytes(SubSeq(reads, 1, k))
C23_StopsAtEofOrSize ==
    Reading =>
    LET reads == ret.r.t.reads
        n == Len(reads) IN
    /\ reads[n] = 0 \/ FedAfter(reads, n) = args.file_size
    /\ \A k \in 1..(n - 1) :
          reads[k] # 0 /\ FedAfter(reads, k) # args.file_size
    /\ ret.r.fed = SubSeq(args.bytes, 1, FedAfter(reads, n))

\* C22: a dry traversal hands no entry to the callback and returns the
\* number of regular files met below the roots; on the unchanged tree the
\* active traversal hands each of those files to the callback once, in the
\* order of the walk, and returns the same number; in both modes an error
\* of the walk is reported and the walk goes on with the entries after it.
Walking == args.fn = "traverse" /\ ret # NoRet
\* the regular files the walk of one root meets, in the order of the walk
FilesMet(dir) ==
    SelectSeq(WalkOrder, LAMBDA p : /\ p \in FsFiles /\ IsPrefix(dir, p)
                                    /\ ~Hidden(p, args.unreadable))
\* the directories whose reading fails during the walk of one root
ErrorsMet(dir) ==
    SelectSeq(WalkOrder, LAMBDA p : /\ p \in args.unreadable /\ IsPrefix(dir, p)
                                    /\ ~Hidden(p, args.unreadable))
RECURSIVE Flatten(_)
Flatten(ss) == IF ss = <<>> THEN <<>> ELSE Head(ss) \o Flatten(Tail(ss))
C22_DryCountsActiveCalls ==
    Walking =>
    LET files == Flatten([i \in 1..Len(args.topdirs) |->
                             FilesMet(args.topdirs[i])])
        errors == Flatten([i \in 1..Len(args.topdirs) |->
                              ErrorsMet(args.topdirs[i])]) IN
    /\ ret.dry.called = <<>>
    /\ ret.dry.n_entries = Len(files)
    /\ ret.dry.reported = errors
    /\ ret.done => /\ ret.actual.called = files
                   /\ ret.actual.n_entries = ret.dry.n_entries
                   /\ ret.actual.reported = errors
    /\ args.unreadable = {} => files = traverse(args.topdirs)

\* the first root cannot be read, the files of the second are visited
C22_Witness ==
    /\ Walking /\ ret.done
    /\ args.topdirs = <<DirS, DirA>> /\ args.unreadable = {DirS}
    /\ ret.actual.reported = <<DirS, DirS>>
    /\ ret.actual.called = <<FileX>>
    /\ ret.dry.n_entries = 1

\* C24: when the partner P that the probe found cannot be opened again at
\* its stored directory and name, the pass ends there in a panic: the
\* newcomer is not inserted, the strong_fp of P is not changed and nothing
\* of the pass reaches the catalogue file.
AccessError(p) ==
    <<"error while accessing file for triggered slowhashing", p>>
\* every row the probe can return for the next file is a file that cannot
\* be opened
PartnerGone ==
    /\ pc = "walking" /\ queue # <<>> /\ ~op.only_slowhash
    /\ fs.state[Head(queue)] = "ok"
    /\ LET found == Matches(txn.files,
                            Digest("xxh3", fs.content[Head(queue)])) IN
       /\ found # {}
       /\ \A i \in found : ~CanOpen(RowPath(txn.files[i]))
C24_Step ==
    /\ (/\ pc = "walking" /\ Len(diag') = Len(diag) + 1
        /\ \E i \in 1..Len(txn.files) :
              diag'[Len(diag')] = AccessError(RowPath(txn.files[i])))
       => /\ pc' = "done" /\ outcome' = "panicked"
          /\ disk' = disk /\ txn' = NoTxn /\ oplog' = oplog
    /\ PartnerGone
       => /\ pc' = "done" /\ disk' = disk /\ txn' = NoTxn /\ oplog' = oplog
          /\ outcome' = "interrupted"
             \/ /\ outcome' = "panicked"
                /\ \E i \in 1..Len(txn.files) :
                      diag'[Len(diag')] = AccessError(RowPath(txn.files[i]))
C24_PartnerGoneIsFatal == [][C24_Step]_vars

\* a pass on a catalogue with rows had inserted a row when the probe
\* returned a row whose file was gone
C24_Witness ==
    /\ outcome = "panicked" /\ ~op.force_db_overwrite
    /\ disk.files # <<>> /\ kept
    /\ \E i \in 1..Len(oplog) : oplog[i].kind = "insert"
    /\ diag # <<>>
    /\ \E i \in 1..Len(disk.files) :
          /\ diag[Len(diag)] = AccessError(RowPath(disk.files[i]))
          /\ ~CanOpen(RowPath(disk.files[i]))

\* C25: a writable open with overwrite of a catalogue file that exists is
\* never refused, whatever version and flags the file stores, and leaves a
\* catalogue without media and files rows whose config holds the version of
\* the build and the flags given to this open; a writable open without
\* overwrite of an initialised catalogue leaves the file as it is.
C25_Step ==
    (pc = "idle" /\ op'.topdirs # <<>>)
    => /\ (disk.exists /\ op'.force_db_overwrite)
          => /\ pc' = "walking" /\ outcome' = "running"
             /\ disk'.exists
             /\ disk'.media = <<>> /\ disk'.files = <<>>
             /\ disk'.config = <<[version |-> DB_VERSION,
                                  force_sha512 |-> op'.force_sha512,
                                  only_slowhash |-> op'.only_slowhash]>>
             /\ txn'.files = <<>>
       /\ (is_initialized(disk) /\ ~op'.force_db_overwrite)
          => disk' = disk
C25_OverwriteSkipsGates == [][C25_Step]_vars

\* a catalogue with rows was overwritten by an open with the other
\* only_slowhash flag than the one of the build that made the file
C25_Witness ==
    /\ pc = "walking" /\ oplog = <<>> /\ walked = {}
    /\ op.force_db_overwrite /\ op.only_slowhash
    /\ ~kept
    /\ disk.files = <<>> /\ disk.media = <<>>
    /\ disk.config[1].only_slowhash

\* C26: when the file handed to the callback has a (medium, directory,
\* name) key that a row of the catalogue already has, no second row is
\* made and the row is not replaced: the insert fails, the pass ends there
\* and the catalogue file keeps none of the rows and promotions of the
\* pass; no two rows ever share a key.
KeyOf(r) == <<r.medium_id, r.path, r.fname>>
KeyExists(files, p) ==
    \E i \in 1..Len(files) :
        files[i].path = Parent(p) /\ files[i].fname = FileName(p)
DistinctKeys(files) ==
    \A i, j \in 1..Len(files) : i # j => KeyOf(files[i]) # KeyOf(files[j])
C26_Step ==
    /\ (pc = "walking" /\ queue # <<>> /\ KeyExists(txn.files, Head(queue)))
       => /\ pc' = "done" /\ txn' = NoTxn
          /\ disk' = disk
          /\ outcome' = "interrupted"
             \/ /\ outcome' = "panicked"
                /\ diag' = Append(diag, <<"INSERT for file", Head(queue)>>)
    /\ DistinctKeys(txn'.files) /\ DistinctKeys(disk'.files)
C26_DuplicateKeyAborts == [][C26_Step]_vars

\* a pass on a catalogue with rows promoted a row and inserted another
\* before it met a file that the catalogue already had
C26_Witness ==
    /\ outcome = "panicked" /\ ~op.force_db_overwrite
    /\ disk.files # <<>> /\ kept
    /\ \E i, j \in 1..Len(oplog) :
          oplog[i].kind = "update" /\ oplog[j].kind = "insert"
    /\ diag # <<>>
    /\ \E i \in 1..Len(disk.files) :
          diag[Len(diag)] = <<"INSERT for file", RowPath(disk.files[i])>>

\* C27: the schema and the three config values are written by the open,
\* outside the transaction.  The open of a new catalogue file leaves it
\* initialised with the flags of the pass before any row is written; a
\* pass that aborts leaves the file as the open left it, so that after an
\* aborted first pass the catalogue is initialised, has no files row and
\* stores the flags of that pass; a later writable open without overwrite
\* and with other flags is refused.
NeverCommitted(d) == is_initialized(d) /\ d.media = <<>>
FlagsOf(o) == <<o.force_sha512, o.only_slowhash>>
C27_Step ==
    /\ (pc = "idle" /\ ~disk.exists /\ op'.topdirs # <<>>)
       => /\ pc' = "walking"
          /\ disk' = init_db(DB_VERSION, op'.force_sha512, op'.only_slowhash)
    /\ (pc = "walking" /\ outcome' \in {"panicked", "interrupted"})
       => /\ disk' = disk
          /\ is_initialized(disk')
          /\ FlagsOf(disk'.config[1]) = FlagsOf(op)
          /\ disk.media = <<>> => disk'.files = <<>>
    /\ (/\ pc = "idle" /\ NeverCommitted(disk)
        /\ op'.topdirs # <<>> /\ ~op'.force_db_overwrite
        /\ FlagsOf(op') # FlagsOf(disk.config[1]))
       => /\ disk.files = <<>>
          /\ pc' = "done" /\ outcome' = "refused"
          /\ disk' = disk /\ txn' = NoTxn
C27_ConfigOutsideTransaction == [][C27_Step]_vars

\* the catalogue left by an aborted first pass was opened with another
\* only_slowhash flag and the open was refused
C27_Witness ==
    /\ outcome = "refused" /\ op.topdirs # <<>> /\ ~op.force_db_overwrite
    /\ NeverCommitted(disk) /\ disk.files = <<>>
    /\ op.only_slowhash # disk.config[1].only_slowhash

\* C28: two groups have the same signature key if and only if they have
\* the same set of parent directories, directories with a comma in their
\* name included, and every group of several directories has a rule made
\* for its own set of directories.
C28_KeyIffSameDirSet ==
    Planned =>
    LET groups == args.groups IN
    /\ \A i, j \in 1..Len(groups) :
          ret.sigs[i] = ret.sigs[j] <=> DirSet(groups[i]) = DirSet(groups[j])
    /\ \A i \in 1..Len(groups) :
          MultiDir(groups[i])
          => \E k \in 1..Len(ret.plan.cases) :
                DirSet(ret.plan.cases[k]) = DirSet(groups[i])

====
